---- MODULE Spec2Model ----
(***************************************************************************)
(* Model of runtime/wasm-graphics.h (graphics_initialize) and of the five  *)
(* demo programs under runtime/examples.  Each demo is one sequential      *)
(* process; every host import is a step whose result the host chooses.     *)
(* The log `calls` holds the calls issued before the render loop, the log  *)
(* `frameLog` those of the loop iteration that ran last.                   *)
(***************************************************************************)
EXTENDS Integers, Sequences, FiniteSets, TLC

\* ---------------------------------------------------------------- bounds
\* EGL handles the host may return are 1..MaxHandle (0 is the null handle).
MaxHandle == 2

\* ------------------------------------------------------- program constants
EGL_NO_DISPLAY == 0
EGL_NO_SURFACE == 0
EGL_NO_CONTEXT == 0
GL_POINTS == 0
GL_LINES == 1
GL_LINE_STRIP == 3
GL_TRIANGLES == 4
GL_TRIANGLE_STRIP == 5
GL_TRIANGLE_FAN == 6
GL_VERTEX_SHADER == 35633
GL_FRAGMENT_SHADER == 35632
GL_ARRAY_BUFFER == 34962
GL_ELEMENT_ARRAY_BUFFER == 34963
GL_TEXTURE_2D == 3553
GL_TEXTURE0 == 33984
num_cubes == 7
SleepMicros == 16667
StatusEvery == 60
HueWrap == 720

\* A local that has not been assigned yet (its content is never read).
Uninit == -1
\* exitStatus while main has not returned.
Running == -1
\* Exit status of a process killed by a trap on a write through NULL.
TrapStatus == 139
NULL == 0
\* A successful malloc: the address of the texture buffer.
BufferAddr == 1

Demos == {"graphics", "shaders", "texture", "cube", "demo"}

\* for (int frame = 0; frame < N; frame++)
FrameCount(d) ==
    CASE d = "graphics" -> 1000
      [] d = "shaders"  -> 300
      [] d = "texture"  -> 300
      [] d = "cube"     -> 600
      [] d = "demo"     -> 900

\* Demos whose main tests the result of compile_shader before going on.
ChecksShader(d) == d \in {"shaders", "texture"}
\* Demos whose compile_shader / link_program print when glCreate* returns 0.
CreateFailureMessage(d) == d \in {"shaders", "texture"}
\* Demos that call glEnable(GL_DEPTH_TEST) after glViewport.
EnablesDepth(d) == d \in {"cube", "demo"}
\* Demos that upload an index buffer.
HasIndices(d) == d \in {"texture", "cube", "demo"}

\* sizeof(vertices), sizeof(indices), texture edge, index count per demo.
VertexBytes(d) ==
    CASE d = "shaders" -> 60 [] d = "texture" -> 64 [] OTHER -> 768
IndexBytes(d) == IF d = "texture" THEN 12 ELSE 72
TexSize(d) == IF d = "demo" THEN 128 ELSE 256
\* Mutant: the draw call passes the number of vertices as the index count.
IndexCount_Vertices(d) == IF d = "texture" THEN 4 ELSE 24
IndexCount(d) == IF d = "texture" THEN 6 ELSE 36

VARIABLES
    demo,        \* the program that runs
    pc,          \* its control location
    exitStatus,  \* Running, or the status main returned
    stderrLines, \* lines written to stderr
    successMsg,  \* the closing "complete" message was printed
    progress,    \* progress lines printed by the loop
    initRet,     \* value returned by graphics_initialize (Uninit before)
    loc,         \* locals display, surface, context of graphics_initialize
    display, surface, context,   \* main's EGL variables
    stage,       \* shader stage being compiled: "vs" or "fs"
    shader,      \* local `shader` of compile_shader / `program` of link_program
    vs, fs, program, vbo, ibo,   \* main's GL names
    texture,     \* main's texture names (cubes[i].texture in example-demo)
    tex_data,    \* pointer returned by malloc
    nullWrite,   \* a texture generator wrote through a NULL pointer
    cube,        \* loop index i of the texture creation loop
    nextName,    \* next unused GL object name of the host
    assigns,     \* how often each handle variable was assigned
    initLog,     \* log of the calls issued by graphics_initialize
    calls,       \* log of the calls main issued before the render loop
    frameLog,    \* log of calls of the last loop iteration
    frame,       \* loop counter
    swaps,       \* eglSwapBuffers calls issued
    hue2,        \* example-graphics: hue in half degrees
    failed,      \* fallible calls that reported failure
    afterFail,   \* host calls issued after a failure was reported
    mat,         \* the matrices of one MVP computation
    gen,         \* one run of a texture generator
    mac,         \* one use of a convenience macro
    geo          \* one vertex fetched by a draw call

\* The state of the demo process.
mainVars == <<demo, pc, exitStatus, stderrLines, successMsg, progress, initRet,
              loc, display, surface, context, stage, shader, vs, fs, program,
              vbo, ibo, texture, tex_data, nullWrite, cube, nextName, assigns,
              initLog, calls, frameLog, frame, swaps, hue2, failed, afterFail>>
\* The state of the helper functions that are run on their own.
pureVars == <<mat, gen, mac, geo>>

vars == <<mainVars, pureVars>>

eglVars  == <<display, surface, context>>
glVars   == <<vs, fs, program, vbo, ibo, texture, nextName>>
loopVars == <<frameLog, frame, swaps, hue2, progress>>
outVars  == <<exitStatus, stderrLines, successMsg>>

\* The handle variable of texture i (cubes[i].texture; `texture` is texture 0).
TexNames == <<"texture0", "texture1", "texture2", "texture3", "texture4",
              "texture5", "texture6">>
TexVar(i) == TexNames[i + 1]
HandleVars == {"display", "surface", "context", "vs", "fs", "program", "vbo",
               "ibo"} \cup {TexVar(i) : i \in 0..(num_cubes - 1)}

\* A logged call: the function and the integer arguments that matter.
Call(f, a) == [f |-> f, a |-> a]
Names(s) == {s[i].f : i \in 1..Len(s)}
\* libc functions; everything else in a log is a host import.
Libc == {"malloc", "free", "usleep"}
HostNames(s) == Names(s) \ Libc
Count(s, f) == Cardinality({i \in 1..Len(s) : s[i].f = f})
CountCall(s, c) == Cardinality({i \in 1..Len(s) : s[i] = c})

\* Appends the calls s to the setup log; they follow a failure if one was
\* reported before this step.
Issue(s) ==
    /\ calls' = calls \o s
    /\ afterFail' = IF failed # {} THEN afterFail \cup HostNames(s) ELSE afterFail

\* The same for a call issued by graphics_initialize.
InitIssue(c) ==
    /\ initLog' = Append(initLog, c)
    /\ afterFail' = IF failed # {} THEN afterFail \cup {c.f} ELSE afterFail

Report(f) == failed' = failed \cup {f}
NoReport == failed' = failed

Assign(v) == assigns' = [assigns EXCEPT ![v] = @ + 1]

\* A helper function that is not being run.
Idle == [step |-> "idle"]

\* The demo process at the entry of main.
InitMain ==
    /\ demo \in Demos
    /\ pc = "gi_init"
    /\ exitStatus = Running
    /\ stderrLines = 0
    /\ successMsg = FALSE
    /\ progress = 0
    /\ initRet = Uninit
    /\ loc = [display |-> Uninit, surface |-> Uninit, context |-> Uninit]
    /\ display = Uninit /\ surface = Uninit /\ context = Uninit
    /\ stage = "vs"
    /\ shader = Uninit
    /\ vs = Uninit /\ fs = Uninit /\ program = Uninit
    /\ vbo = Uninit /\ ibo = Uninit
    /\ texture = [i \in 0..(num_cubes - 1) |-> Uninit]
    /\ tex_data = Uninit
    /\ nullWrite = FALSE
    /\ cube = 0
    /\ nextName = 1
    /\ assigns = [v \in HandleVars |-> 0]
    /\ initLog = <<>>
    /\ calls = <<>>
    /\ frameLog = <<>>
    /\ frame = 0
    /\ swaps = 0
    /\ hue2 = 0
    /\ failed = {}
    /\ afterFail = {}

Init ==
    /\ InitMain
    /\ mat = Idle /\ gen = Idle /\ mac = Idle /\ geo = Idle

\* ------------------------------------------------- graphics_initialize
\* return -1 from graphics_initialize after step f failed.
InitFails(f) ==
    /\ Report(f)
    /\ initRet' = -1
    /\ pc' = "main_init"

\* if (wasm_graphics_init() != 0) return -1;
wasm_graphics_init ==
    /\ pc = "gi_init"
    /\ InitIssue(Call("wasm_graphics_init", <<>>))
    /\ \E r \in {0, 1, -1} :
         IF r # 0 THEN InitFails("wasm_graphics_init")
         ELSE NoReport /\ pc' = "gi_display" /\ UNCHANGED initRet
    /\ UNCHANGED <<pureVars, demo, calls, loc, eglVars, glVars, loopVars, outVars, stage, shader,
                   tex_data, nullWrite, cube, assigns>>

\* display = eglGetDisplay(EGL_DEFAULT_DISPLAY); if (display == EGL_NO_DISPLAY) return -1;
eglGetDisplay ==
    /\ pc = "gi_display"
    /\ InitIssue(Call("eglGetDisplay", <<0>>))
    /\ \E h \in 0..MaxHandle :
         /\ loc' = [loc EXCEPT !.display = h]
         /\ IF h = EGL_NO_DISPLAY THEN InitFails("eglGetDisplay")
            ELSE NoReport /\ pc' = "gi_initialize" /\ UNCHANGED initRet
    /\ UNCHANGED <<pureVars, demo, calls, eglVars, glVars, loopVars, outVars, stage, shader,
                   tex_data, nullWrite, cube, assigns>>

\* Mutant: the result of eglInitialize is not tested.
eglInitialize_Untested ==
    /\ pc = "gi_initialize"
    /\ InitIssue(Call("eglInitialize", <<loc.display>>))
    /\ \E ok \in {0, 1} :
         IF ok = 0 THEN Report("eglInitialize") ELSE NoReport
    /\ pc' = "gi_config"
    /\ UNCHANGED <<pureVars, demo, calls, loc, eglVars, glVars, loopVars, outVars, stage,
                   shader, tex_data, nullWrite, cube, assigns, initRet>>

\* if (!eglInitialize(display, &major, &minor)) return -1;
eglInitialize ==
    /\ pc = "gi_initialize"
    /\ InitIssue(Call("eglInitialize", <<loc.display>>))
    /\ \E ok \in {0, 1} :
         IF ok = 0 THEN InitFails("eglInitialize")
         ELSE NoReport /\ pc' = "gi_config" /\ UNCHANGED initRet
    /\ UNCHANGED <<pureVars, demo, calls, loc, eglVars, glVars, loopVars, outVars, stage, shader,
                   tex_data, nullWrite, cube, assigns>>

\* if (!eglChooseConfig(display, config_attribs, &config, 1, &num_configs)) return -1;
eglChooseConfig ==
    /\ pc = "gi_config"
    /\ InitIssue(Call("eglChooseConfig", <<loc.display>>))
    /\ \E ok \in {0, 1} :
         IF ok = 0 THEN InitFails("eglChooseConfig")
         ELSE NoReport /\ pc' = "gi_surface" /\ UNCHANGED initRet
    /\ UNCHANGED <<pureVars, demo, calls, loc, eglVars, glVars, loopVars, outVars, stage, shader,
                   tex_data, nullWrite, cube, assigns>>

\* surface = eglCreateWindowSurface(...); if (surface == EGL_NO_SURFACE) return -1;
eglCreateWindowSurface ==
    /\ pc = "gi_surface"
    /\ InitIssue(Call("eglCreateWindowSurface", <<loc.display>>))
    /\ \E h \in 0..MaxHandle :
         /\ loc' = [loc EXCEPT !.surface = h]
         /\ IF h = EGL_NO_SURFACE THEN InitFails("eglCreateWindowSurface")
            ELSE NoReport /\ pc' = "gi_context" /\ UNCHANGED initRet
    /\ UNCHANGED <<pureVars, demo, calls, eglVars, glVars, loopVars, outVars, stage, shader,
                   tex_data, nullWrite, cube, assigns>>

\* context = eglCreateContext(...); if (context == EGL_NO_CONTEXT) return -1;
eglCreateContext ==
    /\ pc = "gi_context"
    /\ InitIssue(Call("eglCreateContext", <<loc.display>>))
    /\ \E h \in 0..MaxHandle :
         /\ loc' = [loc EXCEPT !.context = h]
         /\ IF h = EGL_NO_CONTEXT THEN InitFails("eglCreateContext")
            ELSE NoReport /\ pc' = "gi_current" /\ UNCHANGED initRet
    /\ UNCHANGED <<pureVars, demo, calls, eglVars, glVars, loopVars, outVars, stage, shader,
                   tex_data, nullWrite, cube, assigns>>

\* Mutant: the out parameters are written before eglMakeCurrent is tested.
eglMakeCurrent_WritesFirst ==
    /\ pc = "gi_current"
    /\ InitIssue(Call("eglMakeCurrent",
                      <<loc.display, loc.surface, loc.surface, loc.context>>))
    /\ display' = loc.display
    /\ surface' = loc.surface
    /\ context' = loc.context
    /\ assigns' = [assigns EXCEPT !["display"] = @ + 1, !["surface"] = @ + 1,
                                  !["context"] = @ + 1]
    /\ \E ok \in {0, 1} :
         IF ok = 0 THEN InitFails("eglMakeCurrent")
         ELSE NoReport /\ pc' = "main_init" /\ initRet' = 0
    /\ UNCHANGED <<pureVars, demo, calls, loc, glVars, loopVars, outVars, stage, shader,
                   tex_data, nullWrite, cube>>

\* if (!eglMakeCurrent(display, surface, surface, context)) return -1;
eglMakeCurrent ==
    /\ pc = "gi_current"
    /\ InitIssue(Call("eglMakeCurrent",
                      <<loc.display, loc.surface, loc.surface, loc.context>>))
    /\ \E ok \in {0, 1} :
         IF ok = 0 THEN InitFails("eglMakeCurrent")
         ELSE NoReport /\ pc' = "gi_out" /\ UNCHANGED initRet
    /\ UNCHANGED <<pureVars, demo, calls, loc, eglVars, glVars, loopVars, outVars, stage, shader,
                   tex_data, nullWrite, cube, assigns>>

\* Mutant: *out_surface and *out_context receive each other's handle.
SetOutputs_Swapped ==
    /\ pc = "gi_out"
    /\ display' = loc.display
    /\ surface' = loc.context
    /\ context' = loc.surface
    /\ assigns' = [assigns EXCEPT !["display"] = @ + 1, !["surface"] = @ + 1,
                                  !["context"] = @ + 1]
    /\ initRet' = 0
    /\ pc' = "main_init"
    /\ UNCHANGED <<pureVars, demo, initLog, loc, glVars, loopVars, outVars, stage, shader,
                   tex_data, nullWrite, cube, calls, failed, afterFail>>

\* if (out_display) *out_display = display; ... return 0;
\* (every demo passes the addresses of its three variables)
SetOutputs ==
    /\ pc = "gi_out"
    /\ display' = loc.display
    /\ surface' = loc.surface
    /\ context' = loc.context
    /\ assigns' = [assigns EXCEPT !["display"] = @ + 1, !["surface"] = @ + 1,
                                  !["context"] = @ + 1]
    /\ initRet' = 0
    /\ pc' = "main_init"
    /\ UNCHANGED <<pureVars, demo, initLog, loc, glVars, loopVars, outVars, stage, shader, tex_data,
                   nullWrite, cube, calls, failed, afterFail>>

\* ---------------------------------------------------------------- main
\* return 1 from main.
Exit1 == pc' = "exit" /\ exitStatus' = 1

\* Mutant: main calls graphics_initialize again when it failed.
main_init_Retry ==
    /\ pc = "main_init"
    /\ IF initRet # 0
       THEN /\ stderrLines' = stderrLines + 1
            /\ pc' = "gi_init"
            /\ UNCHANGED <<calls, afterFail, exitStatus>>
       ELSE /\ Issue(<<Call("glViewport", <<0, 0, 800, 600>>)>> \o
                     (IF EnablesDepth(demo) THEN <<Call("glEnable", <<2929>>)>>
                      ELSE <<>>))
            /\ pc' = IF demo = "graphics" THEN "loop" ELSE "sh_create"
            /\ UNCHANGED <<exitStatus, stderrLines>>
    /\ UNCHANGED <<pureVars, demo, initLog, loc, eglVars, glVars, loopVars, successMsg,
                   initRet, stage, shader, tex_data, nullWrite, cube, assigns,
                   failed>>

\* if (graphics_initialize(&display, &surface, &context) != 0) {
\*     fprintf(stderr, ...); return 1; }
\* glViewport(0, 0, 800, 600); [glEnable(GL_DEPTH_TEST);]
main_init ==
    /\ pc = "main_init"
    /\ IF initRet # 0
       THEN /\ stderrLines' = stderrLines + 1
            /\ Exit1
            /\ UNCHANGED <<calls, afterFail>>
       ELSE /\ Issue(<<Call("glViewport", <<0, 0, 800, 600>>)>> \o
                     (IF EnablesDepth(demo) THEN <<Call("glEnable", <<2929>>)>>
                      ELSE <<>>))
            /\ pc' = IF demo = "graphics" THEN "loop" ELSE "sh_create"
            /\ UNCHANGED <<exitStatus, stderrLines>>
    /\ UNCHANGED <<pureVars, demo, initLog, loc, eglVars, glVars, loopVars, successMsg, initRet,
                   stage, shader, tex_data, nullWrite, cube, assigns, failed>>

\* ------------------------------------------------------ compile_shader
\* The shader type passed for a stage, and the names its failures go by.
ShaderType == [vs |-> GL_VERTEX_SHADER, fs |-> GL_FRAGMENT_SHADER]
CreateFail == [vs |-> "glCreateShader.vs", fs |-> "glCreateShader.fs"]
CompileFail == [vs |-> "glCompileShader.vs", fs |-> "glCompileShader.fs"]

\* GLuint shader = glCreateShader(type);
\* if (shader == 0) { [fprintf(stderr, ...);] return 0; }
compile_shader_create ==
    /\ pc = "sh_create"
    /\ Issue(<<Call("glCreateShader", <<ShaderType[stage]>>)>>)
    /\ \E ok \in BOOLEAN :
         IF ok
         THEN /\ shader' = nextName
              /\ nextName' = nextName + 1
              /\ NoReport
              /\ pc' = "sh_compile"
              /\ UNCHANGED stderrLines
         ELSE /\ shader' = 0
              /\ Report(CreateFail[stage])
              /\ stderrLines' = IF CreateFailureMessage(demo)
                                THEN stderrLines + 1 ELSE stderrLines
              /\ pc' = "sh_ret"
              /\ UNCHANGED nextName
    /\ UNCHANGED <<pureVars, demo, initLog, loc, eglVars, vs, fs, program, vbo, ibo, texture,
                   loopVars, exitStatus, successMsg, initRet, stage, tex_data,
                   nullWrite, cube, assigns>>

\* glShaderSource(...); glCompileShader(shader);
\* glGetShaderiv(shader, GL_COMPILE_STATUS, &compiled); if (!compiled) ...
compile_shader_compile ==
    /\ pc = "sh_compile"
    /\ Issue(<<Call("glShaderSource", <<shader>>),
               Call("glCompileShader", <<shader>>),
               Call("glGetShaderiv", <<shader>>)>>)
    /\ \E compiled \in {0, 1} :
         IF compiled = 0
         THEN Report(CompileFail[stage]) /\ pc' = "sh_log"
         ELSE NoReport /\ pc' = "sh_ret"
    /\ UNCHANGED <<pureVars, demo, initLog, loc, eglVars, glVars, loopVars, outVars, initRet, stage,
                   shader, tex_data, nullWrite, cube, assigns>>

\* glGetShaderInfoLog(shader, sizeof(log), ..., log); fprintf(stderr, ...); return 0;
compile_shader_log ==
    /\ pc = "sh_log"
    /\ Issue(<<Call("glGetShaderInfoLog", <<shader>>)>>)
    /\ stderrLines' = stderrLines + 1
    /\ shader' = 0
    /\ pc' = "sh_ret"
    /\ UNCHANGED <<pureVars, demo, initLog, loc, eglVars, glVars, loopVars, exitStatus, successMsg,
                   initRet, stage, tex_data, nullWrite, cube, assigns, failed>>

\* GLuint vs = compile_shader(GL_VERTEX_SHADER, ...);   [if (vs == 0) return 1;]
\* GLuint fs = compile_shader(GL_FRAGMENT_SHADER, ...); [if (fs == 0) return 1;]
main_shader ==
    /\ pc = "sh_ret"
    /\ IF stage = "vs" THEN vs' = shader /\ UNCHANGED fs
                       ELSE fs' = shader /\ UNCHANGED vs
    /\ Assign(stage)
    /\ IF ChecksShader(demo) /\ shader = 0
       THEN Exit1 /\ UNCHANGED stage
       ELSE /\ pc' = IF stage = "vs" THEN "sh_create" ELSE "pr_create"
            /\ stage' = "fs"
            /\ UNCHANGED exitStatus
    /\ UNCHANGED <<pureVars, demo, initLog, loc, eglVars, program, vbo, ibo, texture, nextName,
                   loopVars, stderrLines, successMsg, initRet, shader, tex_data,
                   nullWrite, cube, calls, failed, afterFail>>

\* -------------------------------------------------------- link_program
\* GLuint program = glCreateProgram();
\* if (program == 0) { [fprintf(stderr, ...);] return 0; }
link_program_create ==
    /\ pc = "pr_create"
    /\ Issue(<<Call("glCreateProgram", <<>>)>>)
    /\ \E ok \in BOOLEAN :
         IF ok
         THEN /\ shader' = nextName
              /\ nextName' = nextName + 1
              /\ NoReport
              /\ pc' = "pr_link"
              /\ UNCHANGED stderrLines
         ELSE /\ shader' = 0
              /\ Report("glCreateProgram")
              /\ stderrLines' = IF CreateFailureMessage(demo)
                                THEN stderrLines + 1 ELSE stderrLines
              /\ pc' = "pr_ret"
              /\ UNCHANGED nextName
    /\ UNCHANGED <<pureVars, demo, initLog, loc, eglVars, vs, fs, program, vbo, ibo, texture,
                   loopVars, exitStatus, successMsg, initRet, stage, tex_data,
                   nullWrite, cube, assigns>>

\* glAttachShader(program, vs); glAttachShader(program, fs);
\* glLinkProgram(program); glGetProgramiv(program, GL_LINK_STATUS, &linked);
link_program_link ==
    /\ pc = "pr_link"
    /\ Issue(<<Call("glAttachShader", <<shader, vs>>),
               Call("glAttachShader", <<shader, fs>>),
               Call("glLinkProgram", <<shader>>),
               Call("glGetProgramiv", <<shader>>)>>)
    /\ \E linked \in {0, 1} :
         IF linked = 0
         THEN Report("glLinkProgram") /\ pc' = "pr_log"
         ELSE NoReport /\ pc' = "pr_ret"
    /\ UNCHANGED <<pureVars, demo, initLog, loc, eglVars, glVars, loopVars, outVars, initRet, stage,
                   shader, tex_data, nullWrite, cube, assigns>>

\* glGetProgramInfoLog(program, ...); fprintf(stderr, ...); return 0;
link_program_log ==
    /\ pc = "pr_log"
    /\ Issue(<<Call("glGetProgramInfoLog", <<shader>>)>>)
    /\ stderrLines' = stderrLines + 1
    /\ shader' = 0
    /\ pc' = "pr_ret"
    /\ UNCHANGED <<pureVars, demo, initLog, loc, eglVars, glVars, loopVars, exitStatus, successMsg,
                   initRet, stage, tex_data, nullWrite, cube, assigns, failed>>

\* GLuint program = link_program(vs, fs); if (program == 0) return 1;
main_program ==
    /\ pc = "pr_ret"
    /\ program' = shader
    /\ Assign("program")
    /\ IF shader = 0
       THEN Exit1
       ELSE pc' = "buffers" /\ UNCHANGED exitStatus
    /\ UNCHANGED <<pureVars, demo, initLog, loc, eglVars, vs, fs, vbo, ibo, texture, nextName,
                   loopVars, stderrLines, successMsg, initRet, stage, shader,
                   tex_data, nullWrite, cube, calls, failed, afterFail>>

\* -------------------------------------------------- main: static data
\* Attribute and uniform names, by the number the model gives them.  The
\* location the host returns for a name is only passed on, never inspected.
A_position == 0
A_second == 1      \* "color" in example-shaders, "texcoord" elsewhere
A_normal == 2
U_mvp == 0
U_light_dir == 1
U_texture == 2
U_tint_color == 3

AttribLoc(a) == Call("glGetAttribLocation", <<program, a>>)
UniformLoc(u) == Call("glGetUniformLocation", <<program, u>>)

\* The glGetAttribLocation / glGetUniformLocation calls of each main, in order.
Locations(d) ==
    CASE d = "shaders" -> <<AttribLoc(A_position), AttribLoc(A_second)>>
      [] d = "texture" -> <<AttribLoc(A_position), AttribLoc(A_second),
                            UniformLoc(U_texture)>>
      [] d = "cube"    -> <<AttribLoc(A_position), AttribLoc(A_second),
                            AttribLoc(A_normal), UniformLoc(U_mvp),
                            UniformLoc(U_light_dir), UniformLoc(U_texture)>>
      [] d = "demo"    -> <<UniformLoc(U_mvp), UniformLoc(U_light_dir),
                            UniformLoc(U_texture), UniformLoc(U_tint_color),
                            AttribLoc(A_position), AttribLoc(A_second),
                            AttribLoc(A_normal)>>

\* glGenBuffers(1, &b); glBindBuffer(target, b); glBufferData(target, size, ...);
Upload(target, name, size) ==
    <<Call("glGenBuffers", <<1>>), Call("glBindBuffer", <<target, name>>),
      Call("glBufferData", <<target, size>>)>>

\* Locations, then the vertex buffer and (except example-shaders) the index buffer.
create_buffers ==
    /\ pc = "buffers"
    /\ vbo' = nextName
    /\ IF HasIndices(demo)
       THEN /\ ibo' = nextName + 1
            /\ nextName' = nextName + 2
            /\ assigns' = [assigns EXCEPT !["vbo"] = @ + 1, !["ibo"] = @ + 1]
            /\ Issue(Locations(demo)
                     \o Upload(GL_ARRAY_BUFFER, nextName, VertexBytes(demo))
                     \o Upload(GL_ELEMENT_ARRAY_BUFFER, nextName + 1,
                               IndexBytes(demo)))
       ELSE /\ nextName' = nextName + 1
            /\ Assign("vbo")
            /\ Issue(Locations(demo)
                     \o Upload(GL_ARRAY_BUFFER, nextName, VertexBytes(demo)))
            /\ UNCHANGED ibo
    /\ pc' = CASE demo = "shaders" -> "render_setup"
               [] demo = "demo"    -> "demo_alloc"
               [] OTHER            -> "tex_create"
    /\ UNCHANGED <<pureVars, demo, initLog, loc, eglVars, vs, fs, program, texture, loopVars,
                   outVars, initRet, stage, shader, tex_data, nullWrite, cube,
                   failed>>

\* glTexParameteri(GL_TEXTURE_2D, MIN_FILTER / MAG_FILTER / WRAP_S / WRAP_T, ...)
TexParameters ==
    <<Call("glTexParameteri", <<GL_TEXTURE_2D, 10241>>),
      Call("glTexParameteri", <<GL_TEXTURE_2D, 10240>>),
      Call("glTexParameteri", <<GL_TEXTURE_2D, 10242>>),
      Call("glTexParameteri", <<GL_TEXTURE_2D, 10243>>)>>

TexImage(d, data) ==
    Call("glTexImage2D", <<GL_TEXTURE_2D, TexSize(d), TexSize(d), data>>)

\* example-texture, example-cube:
\* glGenTextures(1, &texture); glBindTexture(GL_TEXTURE_2D, texture);
\* tex_data = malloc(size * size * 4);
\* if (!tex_data) { fprintf(stderr, ...); return 1; }
create_texture ==
    /\ pc = "tex_create"
    /\ texture' = [texture EXCEPT ![0] = nextName]
    /\ nextName' = nextName + 1
    /\ Assign(TexVar(0))
    /\ Issue(<<Call("glGenTextures", <<1>>),
               Call("glBindTexture", <<GL_TEXTURE_2D, nextName>>),
               Call("malloc", <<TexSize(demo) * TexSize(demo) * 4>>)>>)
    /\ \E p \in {NULL, BufferAddr} :
         /\ tex_data' = p
         /\ IF p = NULL
            THEN /\ Report("malloc")
                 /\ stderrLines' = stderrLines + 1
                 /\ Exit1
            ELSE /\ NoReport
                 /\ pc' = "tex_upload"
                 /\ UNCHANGED <<exitStatus, stderrLines>>
    /\ UNCHANGED <<pureVars, demo, initLog, loc, eglVars, vs, fs, program, vbo, ibo, loopVars,
                   successMsg, initRet, stage, shader, nullWrite, cube>>

\* create_checkerboard_texture / create_cube_texture(tex_data, ...);
\* glTexImage2D(..., tex_data); free(tex_data); glTexParameteri x 4
upload_texture ==
    /\ pc = "tex_upload"
    /\ nullWrite' = (nullWrite \/ tex_data = NULL)
    /\ Issue(<<TexImage(demo, tex_data), Call("free", <<tex_data>>)>>
             \o TexParameters)
    /\ pc' = "render_setup"
    /\ UNCHANGED <<pureVars, demo, initLog, loc, eglVars, glVars, loopVars, outVars, initRet, stage,
                   shader, tex_data, cube, assigns, failed>>

\* example-demo: GLubyte* tex_data = (GLubyte*)malloc(tex_size * tex_size * 4);
\* (the result is not tested)
demo_alloc ==
    /\ pc = "demo_alloc"
    /\ Issue(<<Call("malloc", <<TexSize(demo) * TexSize(demo) * 4>>)>>)
    /\ \E p \in {NULL, BufferAddr} :
         /\ tex_data' = p
         /\ IF p = NULL THEN Report("malloc") ELSE NoReport
    /\ pc' = "demo_cube"
    /\ UNCHANGED <<pureVars, demo, initLog, loc, eglVars, glVars, loopVars, outVars, initRet, stage,
                   shader, nullWrite, cube, assigns>>

\* Mutant: every texture name is stored in cubes[0].texture.
demo_cube_SameSlot ==
    /\ pc = "demo_cube"
    /\ cube < num_cubes
    /\ nullWrite' = (nullWrite \/ tex_data = NULL)
    /\ \E traps \in (IF tex_data = NULL THEN BOOLEAN ELSE {FALSE}) :
         IF traps
         THEN /\ pc' = "exit"
              /\ exitStatus' = TrapStatus
              /\ UNCHANGED <<texture, nextName, assigns, calls, afterFail, cube>>
         ELSE /\ texture' = [texture EXCEPT ![0] = nextName]
              /\ nextName' = nextName + 1
              /\ Assign(TexVar(0))
              /\ Issue(<<Call("glGenTextures", <<1>>),
                         Call("glBindTexture", <<GL_TEXTURE_2D, nextName>>),
                         TexImage(demo, tex_data)>> \o TexParameters)
              /\ cube' = cube + 1
              /\ pc' = IF cube + 1 < num_cubes THEN "demo_cube"
                       ELSE "render_setup"
              /\ UNCHANGED exitStatus
    /\ UNCHANGED <<pureVars, demo, initLog, loc, eglVars, vs, fs, program, vbo, ibo,
                   loopVars, stderrLines, successMsg, initRet, stage, shader,
                   tex_data, failed>>

\* example-demo, one iteration of for (i = 0; i < num_cubes; i++):
\* create_cube_texture(tex_data, ...); glGenTextures(1, &cubes[i].texture);
\* glBindTexture; glTexImage2D(..., tex_data); glTexParameteri x 4.
\* A write through NULL is undefined: it traps, or (address 0 is ordinary
\* linear memory on wasm32) it goes through and the program runs on.
demo_cube ==
    /\ pc = "demo_cube"
    /\ cube < num_cubes
    /\ nullWrite' = (nullWrite \/ tex_data = NULL)
    /\ \E traps \in (IF tex_data = NULL THEN BOOLEAN ELSE {FALSE}) :
         IF traps
         THEN /\ pc' = "exit"
              /\ exitStatus' = TrapStatus
              /\ UNCHANGED <<texture, nextName, assigns, calls, afterFail, cube>>
         ELSE /\ texture' = [texture EXCEPT ![cube] = nextName]
              /\ nextName' = nextName + 1
              /\ Assign(TexVar(cube))
              /\ Issue(<<Call("glGenTextures", <<1>>),
                         Call("glBindTexture", <<GL_TEXTURE_2D, nextName>>),
                         TexImage(demo, tex_data)>> \o TexParameters)
              /\ cube' = cube + 1
              /\ pc' = IF cube + 1 < num_cubes THEN "demo_cube"
                       ELSE "render_setup"
              /\ UNCHANGED exitStatus
    /\ UNCHANGED <<pureVars, demo, initLog, loc, eglVars, vs, fs, program, vbo, ibo, loopVars,
                   stderrLines, successMsg, initRet, stage, shader, tex_data,
                   failed>>

\* Mutant: the attribute offset is passed in floats instead of bytes.
Attrib_FloatOffset(a, size, stride, offset) ==
    <<Call("glEnableVertexAttribArray", <<a>>),
      Call("glVertexAttribPointer", <<a, size, stride, offset \div 4>>)>>

\* glEnableVertexAttribArray(loc); glVertexAttribPointer(loc, size, GL_FLOAT,
\* GL_FALSE, stride, offset);
Attrib(a, size, stride, offset) ==
    <<Call("glEnableVertexAttribArray", <<a>>),
      Call("glVertexAttribPointer", <<a, size, stride, offset>>)>>

\* glActiveTexture(GL_TEXTURE0); glBindTexture(GL_TEXTURE_2D, t);
BindUnit0(t) ==
    <<Call("glActiveTexture", <<GL_TEXTURE0>>),
      Call("glBindTexture", <<GL_TEXTURE_2D, t>>)>>

\* The calls between the texture upload and the render loop of each main.
RenderSetup(d) ==
    CASE d = "shaders" ->
           <<Call("glUseProgram", <<program>>)>>
           \o Attrib(A_position, 2, 20, 0) \o Attrib(A_second, 3, 20, 8)
      [] d = "texture" ->
           <<Call("glUseProgram", <<program>>)>>
           \o Attrib(A_position, 2, 16, 0) \o Attrib(A_second, 2, 16, 8)
           \o BindUnit0(texture[0])
           \o <<Call("glUniform1i", <<U_texture, 0>>)>>
      [] d = "cube" ->
           <<Call("glUseProgram", <<program>>)>>
           \o Attrib(A_position, 3, 32, 0) \o Attrib(A_second, 2, 32, 12)
           \o Attrib(A_normal, 3, 32, 20)
           \o BindUnit0(texture[0])
           \o <<Call("glUniform1i", <<U_texture, 0>>),
                Call("glUniform3f", <<U_light_dir>>)>>
      [] d = "demo" ->
           <<Call("free", <<tex_data>>), Call("glUseProgram", <<program>>)>>
           \o Attrib(A_position, 3, 32, 0) \o Attrib(A_second, 2, 32, 12)
           \o Attrib(A_normal, 3, 32, 20)
           \o <<Call("glUniform3f", <<U_light_dir>>),
                Call("glUniform1i", <<U_texture, 0>>)>>

setup_rendering ==
    /\ pc = "render_setup"
    /\ Issue(RenderSetup(demo))
    /\ pc' = "loop"
    /\ UNCHANGED <<pureVars, demo, initLog, loc, eglVars, glVars, loopVars, outVars, initRet, stage,
                   shader, tex_data, nullWrite, cube, assigns, failed>>

\* ----------------------------------------------------- the render loop
\* Mutant: the cubes are drawn as one triangle strip each.
CubeCalls_Strip(i) ==
    <<Call("glUniformMatrix4fv", <<U_mvp, i>>),
      Call("glUniform3f", <<U_tint_color, i>>)>>
    \o BindUnit0(texture[i])
    \o <<Call("glDrawElements", <<GL_TRIANGLE_STRIP, IndexCount("demo"), i>>)>>

\* Mutant: every cube is drawn with the texture of the first cube.
CubeCalls_FirstTexture(i) ==
    <<Call("glUniformMatrix4fv", <<U_mvp, i>>),
      Call("glUniform3f", <<U_tint_color, i>>)>>
    \o BindUnit0(texture[0])
    \o <<Call("glDrawElements", <<GL_TRIANGLES, IndexCount("demo"), i>>)>>

\* example-demo, the body of for (i = 0; i < num_cubes; i++) for cube i.
CubeCalls(i) ==
    <<Call("glUniformMatrix4fv", <<U_mvp, i>>),
      Call("glUniform3f", <<U_tint_color, i>>)>>
    \o BindUnit0(texture[i])
    \o <<Call("glDrawElements", <<GL_TRIANGLES, IndexCount("demo"), i>>)>>

RECURSIVE DemoDraws(_)
DemoDraws(i) == IF i >= num_cubes THEN <<>> ELSE CubeCalls(i) \o DemoDraws(i + 1)

\* hsv_to_rgb(hue, 1.0f, 1.0f, &r, &g, &b) for hue = h2 / 2 degrees (s is not
\* 0, so the early return is not taken): h /= 60.0f; i = (int)h;
\* switch (i % 6) assigns *r, *g and *b in each of its cases 0..5 and has no
\* default.  h2 is not negative, so % is the remainder of C.
hsv_to_rgb(h2) ==
    LET i == h2 \div 120 IN
    [h2 |-> h2, i |-> i,
     assigned |-> IF i % 6 \in 0..5 THEN {"r", "g", "b"} ELSE {}]

\* glClearColor: example-graphics passes the r, g, b of hsv_to_rgb(hue, ...),
\* the other demos pass constants.
ClearColor(d) ==
    IF d = "graphics" THEN Call("glClearColor", <<hsv_to_rgb(hue2)>>)
    ELSE Call("glClearColor", <<>>)

\* Mutant: the screen is cleared after the draw calls.
FrameCalls_DrawFirst(d) ==
    (CASE d = "graphics" -> <<>>
       [] d = "shaders"  -> <<Call("glDrawArrays", <<GL_TRIANGLES, 0, 3>>)>>
       [] d = "texture"  ->
            <<Call("glDrawElements", <<GL_TRIANGLES, IndexCount(d), 0>>)>>
       [] d = "cube"     ->
            <<Call("glUniformMatrix4fv", <<U_mvp, 0>>),
              Call("glDrawElements", <<GL_TRIANGLES, IndexCount(d), 0>>)>>
       [] d = "demo"     -> DemoDraws(0))
    \o <<ClearColor(d), Call("glClear", <<16640>>)>>

\* The calls of one loop iteration before eglSwapBuffers.
FrameCalls(d) ==
    <<ClearColor(d), Call("glClear", <<16640>>)>> \o
    CASE d = "graphics" -> <<>>
      [] d = "shaders"  -> <<Call("glDrawArrays", <<GL_TRIANGLES, 0, 3>>)>>
      [] d = "texture"  ->
           <<Call("glDrawElements", <<GL_TRIANGLES, IndexCount(d), 0>>)>>
      [] d = "cube"     ->
           <<Call("glUniformMatrix4fv", <<U_mvp, 0>>),
             Call("glDrawElements", <<GL_TRIANGLES, IndexCount(d), 0>>)>>
      [] d = "demo"     -> DemoDraws(0)

\* Mutant: the loop body advances the counter as well when it prints.
frame_iteration_SkipsFrame ==
    /\ pc = "loop"
    /\ frame < FrameCount(demo)
    /\ frameLog' = FrameCalls(demo)
                   \o <<Call("eglSwapBuffers", <<display, surface>>),
                        Call("usleep", <<SleepMicros>>)>>
    /\ afterFail' = IF failed # {}
                    THEN afterFail \cup HostNames(FrameCalls(demo))
                                   \cup {"eglSwapBuffers"}
                    ELSE afterFail
    /\ swaps' = swaps + 1
    /\ \E ok \in {0, 1} :
         IF ok = 0 THEN Report("eglSwapBuffers") ELSE NoReport
    /\ hue2' = IF demo = "graphics"
               THEN (IF hue2 + 1 >= HueWrap THEN 0 ELSE hue2 + 1)
               ELSE hue2
    /\ progress' = IF frame % StatusEvery = 0 THEN progress + 1 ELSE progress
    /\ frame' = IF frame % StatusEvery = 0 THEN frame + 2 ELSE frame + 1
    /\ pc' = "loop"
    /\ UNCHANGED <<pureVars, demo, initLog, loc, eglVars, glVars, outVars, initRet, stage,
                   shader, tex_data, nullWrite, cube, assigns, calls>>

\* Mutant: the status line is printed in the last frame of each group of 60.
frame_iteration_PrintsLate ==
    /\ pc = "loop"
    /\ frame < FrameCount(demo)
    /\ frameLog' = FrameCalls(demo)
                   \o <<Call("eglSwapBuffers", <<display, surface>>),
                        Call("usleep", <<SleepMicros>>)>>
    /\ afterFail' = IF failed # {}
                    THEN afterFail \cup HostNames(FrameCalls(demo))
                                   \cup {"eglSwapBuffers"}
                    ELSE afterFail
    /\ swaps' = swaps + 1
    /\ \E ok \in {0, 1} :
         IF ok = 0 THEN Report("eglSwapBuffers") ELSE NoReport
    /\ hue2' = IF demo = "graphics"
               THEN (IF hue2 + 1 >= HueWrap THEN 0 ELSE hue2 + 1)
               ELSE hue2
    /\ progress' = IF (frame + 1) % StatusEvery = 0 THEN progress + 1
                   ELSE progress
    /\ frame' = frame + 1
    /\ pc' = "loop"
    /\ UNCHANGED <<pureVars, demo, initLog, loc, eglVars, glVars, outVars, initRet,
                   stage, shader, tex_data, nullWrite, cube, assigns, calls>>

\* Mutant: the loop sleeps before it presents the frame.
frame_iteration_SleepFirst ==
    /\ pc = "loop"
    /\ frame < FrameCount(demo)
    /\ frameLog' = FrameCalls(demo)
                   \o <<Call("usleep", <<SleepMicros>>),
                        Call("eglSwapBuffers", <<display, surface>>)>>
    /\ afterFail' = IF failed # {}
                    THEN afterFail \cup HostNames(FrameCalls(demo))
                                   \cup {"eglSwapBuffers"}
                    ELSE afterFail
    /\ swaps' = swaps + 1
    /\ \E ok \in {0, 1} :
         IF ok = 0 THEN Report("eglSwapBuffers") ELSE NoReport
    /\ hue2' = IF demo = "graphics"
               THEN (IF hue2 + 1 >= HueWrap THEN 0 ELSE hue2 + 1)
               ELSE hue2
    /\ progress' = IF frame % StatusEvery = 0 THEN progress + 1 ELSE progress
    /\ frame' = frame + 1
    /\ pc' = "loop"
    /\ UNCHANGED <<pureVars, demo, initLog, loc, eglVars, glVars, outVars, initRet,
                   stage, shader, tex_data, nullWrite, cube, assigns, calls>>

\* Mutant: the hue wraps only when it has passed 360 degrees.
frame_iteration_WrapsLate ==
    /\ pc = "loop"
    /\ frame < FrameCount(demo)
    /\ frameLog' = FrameCalls(demo)
                   \o <<Call("eglSwapBuffers", <<display, surface>>),
                        Call("usleep", <<SleepMicros>>)>>
    /\ afterFail' = IF failed # {}
                    THEN afterFail \cup HostNames(FrameCalls(demo))
                                   \cup {"eglSwapBuffers"}
                    ELSE afterFail
    /\ swaps' = swaps + 1
    /\ \E ok \in {0, 1} :
         IF ok = 0 THEN Report("eglSwapBuffers") ELSE NoReport
    /\ hue2' = IF demo = "graphics"
               THEN (IF hue2 + 1 > HueWrap THEN 0 ELSE hue2 + 1)
               ELSE hue2
    /\ progress' = IF frame % StatusEvery = 0 THEN progress + 1 ELSE progress
    /\ frame' = frame + 1
    /\ pc' = "loop"
    /\ UNCHANGED <<pureVars, demo, initLog, loc, eglVars, glVars, outVars, initRet,
                   stage, shader, tex_data, nullWrite, cube, assigns, calls>>

\* One iteration of for (int frame = 0; frame < N; frame++):
\* glClearColor; glClear; draw ...; eglSwapBuffers(display, surface);
\* (result not tested) [hue += 0.5f; if (hue >= 360.0f) hue = 0.0f;]
\* if (frame % 60 == 0) printf(...); usleep(16667);
frame_iteration ==
    /\ pc = "loop"
    /\ frame < FrameCount(demo)
    /\ frameLog' = FrameCalls(demo)
                   \o <<Call("eglSwapBuffers", <<display, surface>>),
                        Call("usleep", <<SleepMicros>>)>>
    /\ afterFail' = IF failed # {}
                    THEN afterFail \cup HostNames(FrameCalls(demo))
                                   \cup {"eglSwapBuffers"}
                    ELSE afterFail
    /\ swaps' = swaps + 1
    /\ \E ok \in {0, 1} :
         IF ok = 0 THEN Report("eglSwapBuffers") ELSE NoReport
    /\ hue2' = IF demo = "graphics"
               THEN (IF hue2 + 1 >= HueWrap THEN 0 ELSE hue2 + 1)
               ELSE hue2
    /\ progress' = IF frame % StatusEvery = 0 THEN progress + 1 ELSE progress
    /\ frame' = frame + 1
    /\ pc' = "loop"
    /\ UNCHANGED <<pureVars, demo, initLog, loc, eglVars, glVars, outVars, initRet, stage,
                   shader, tex_data, nullWrite, cube, assigns, calls>>

\* printf("... complete ..."); return 0;
main_done ==
    /\ pc = "loop"
    /\ frame >= FrameCount(demo)
    /\ successMsg' = TRUE
    /\ exitStatus' = 0
    /\ pc' = "exit"
    /\ UNCHANGED <<pureVars, demo, initLog, loc, eglVars, glVars, loopVars, stderrLines, initRet,
                   stage, shader, tex_data, nullWrite, cube, assigns, calls,
                   failed, afterFail>>

Next ==
    \/ wasm_graphics_init
    \/ eglGetDisplay
    \/ eglInitialize
    \/ eglChooseConfig
    \/ eglCreateWindowSurface
    \/ eglCreateContext
    \/ eglMakeCurrent
    \/ SetOutputs
    \/ main_init
    \/ compile_shader_create
    \/ compile_shader_compile
    \/ compile_shader_log
    \/ main_shader
    \/ link_program_create
    \/ link_program_link
    \/ link_program_log
    \/ main_program
    \/ create_buffers
    \/ create_texture
    \/ upload_texture
    \/ demo_alloc
    \/ demo_cube
    \/ setup_rendering
    \/ frame_iteration
    \/ main_done

Spec == Init /\ [][Next]_vars

\* ------------------------------------------- mat4 helpers and the MVP chain
\* A mat4 is a sequence of 16 numbers: m[i] of the code is m[i + 1] here.
\* The floats of the code are integers in the model; the code rounds, the
\* model does not.
\* Bound: translations of the view matrix are in -MaxCoord..MaxCoord.
MaxCoord == 1

\* for (i < 16) m[i] = 0.0f; m[0] = m[5] = m[10] = m[15] = 1.0f;
mat4_identity == [n \in 1..16 |-> IF n \in {1, 6, 11, 16} THEN 1 ELSE 0]

\* temp[i * 4 + j] += a[i * 4 + k] * b[k * 4 + j]; memcpy(result, temp, ...)
mat4_multiply(a, b) ==
    [n \in 1..16 |->
        LET i == (n - 1) \div 4
            j == (n - 1) % 4
        IN a[i * 4 + 1] * b[j + 1] + a[i * 4 + 2] * b[4 + j + 1]
           + a[i * 4 + 3] * b[8 + j + 1] + a[i * 4 + 4] * b[12 + j + 1]]

\* mat4_perspective: fx = f / aspect, fy = f, a = (far + near) / (near - far),
\* b = 2 * far * near / (near - far) are the values the code computes.
mat4_perspective(fx, fy, a, b) ==
    [mat4_identity EXCEPT ![1] = fx, ![6] = fy, ![11] = a, ![12] = -1,
                          ![15] = b, ![16] = 0]

\* mat4_identity(m); m[12] = x; m[13] = y; m[14] = z;
mat4_translate(x, y, z) ==
    [mat4_identity EXCEPT ![13] = x, ![14] = y, ![15] = z]

\* mat4_rotate_x / mat4_rotate_y with c = cosf(angle), s = sinf(angle).
mat4_rotate_x(c, s) ==
    [mat4_identity EXCEPT ![6] = c, ![7] = s, ![10] = -s, ![11] = c]
mat4_rotate_y(c, s) ==
    [mat4_identity EXCEPT ![1] = c, ![3] = -s, ![9] = s, ![11] = c]

\* The matrix m, uploaded with transpose = GL_FALSE (element (row, col) is
\* m[col * 4 + row]), applied to the column vector v: m * v of the shader.
MatVec(m, v) ==
    [r \in 1..4 |-> m[r] * v[1] + m[4 + r] * v[2] + m[8 + r] * v[3]
                     + m[12 + r] * v[4]]

\* cosf / sinf of the quarter turns.
QuarterTurns == {<<1, 0>>, <<0, 1>>, <<-1, 0>>, <<0, -1>>}
\* Corners of the cube, in half units, as vec4(position, 1.0).
Corners == {<<x, y, z, 1>> : x \in {-1, 1}, y \in {-1, 1}, z \in {-1, 1}}
Coords == (0 - MaxCoord)..MaxCoord

\* The locals of one loop iteration of example-cube before the matrices are
\* combined, for one vertex of the cube.
InitMat ==
    /\ InitMain /\ demo = "cube"
    /\ gen = Idle /\ mac = Idle /\ geo = Idle
    /\ \E rx \in QuarterTurns, ry \in QuarterTurns, pos \in Corners,
          x \in Coords, y \in Coords, z \in Coords,
          p \in {mat4_perspective(1, 1, -2, -3), mat4_perspective(2, 3, -1, -1)} :
         mat = [step |-> "model", projection |-> p,
                view |-> mat4_translate(x, y, z),
                rot_x |-> mat4_rotate_x(rx[1], rx[2]),
                rot_y |-> mat4_rotate_y(ry[1], ry[2]),
                model |-> <<>>, temp |-> <<>>, mvp |-> <<>>,
                position |-> pos, gl_Position |-> <<>>]

\* mat4_multiply(model, rot_y, rot_x);
mvp_model ==
    /\ mat.step = "model"
    /\ mat' = [mat EXCEPT !.model = mat4_multiply(mat.rot_y, mat.rot_x),
                          !.step = "view_model"]
    /\ UNCHANGED <<mainVars, gen, mac, geo>>

\* mat4_multiply(temp, view, model);
mvp_view_model ==
    /\ mat.step = "view_model"
    /\ mat' = [mat EXCEPT !.temp = mat4_multiply(mat.view, mat.model),
                          !.step = "projection"]
    /\ UNCHANGED <<mainVars, gen, mac, geo>>

\* mat4_multiply(mvp, projection, temp);
mvp_projection ==
    /\ mat.step = "projection"
    /\ mat' = [mat EXCEPT !.mvp = mat4_multiply(mat.projection, mat.temp),
                          !.step = "upload"]
    /\ UNCHANGED <<mainVars, gen, mac, geo>>

\* glUniformMatrix4fv(mvp_loc, 1, GL_FALSE, mvp); and, in the vertex shader,
\* gl_Position = u_mvp * vec4(position, 1.0);
vertex_shader ==
    /\ mat.step = "upload"
    /\ mat' = [mat EXCEPT !.gl_Position = MatVec(mat.mvp, mat.position),
                          !.step = "shaded"]
    /\ UNCHANGED <<mainVars, gen, mac, geo>>

NextMat ==
    \/ mvp_model
    \/ mvp_view_model
    \/ mvp_projection
    \/ vertex_shader

SpecMat == InitMat /\ [][NextMat]_vars

\* ------------------------------------------ the convenience macros
\* Bound: a macro is used with the arguments 1 + k, 2 + k, ... for k in
\* 0..MaxOffset.
MaxOffset == 1

\* The host imports the header declares: the number of parameters and the
\* API (the part of the name after wasm_) of each.
Imports ==
    [wasm_graphics_init |-> [arity |-> 0, api |-> "host"],
     wasm_graphics_swap_buffers |-> [arity |-> 0, api |-> "host"],
     wasm_egl_get_display |-> [arity |-> 1, api |-> "egl"],
     wasm_egl_initialize |-> [arity |-> 3, api |-> "egl"],
     wasm_egl_choose_config |-> [arity |-> 5, api |-> "egl"],
     wasm_egl_create_window_surface |-> [arity |-> 4, api |-> "egl"],
     wasm_egl_create_context |-> [arity |-> 4, api |-> "egl"],
     wasm_egl_make_current |-> [arity |-> 4, api |-> "egl"],
     wasm_egl_swap_buffers |-> [arity |-> 2, api |-> "egl"],
     wasm_gl_clear |-> [arity |-> 1, api |-> "gl"],
     wasm_gl_clear_color |-> [arity |-> 4, api |-> "gl"],
     wasm_gl_viewport |-> [arity |-> 4, api |-> "gl"],
     wasm_gl_create_shader |-> [arity |-> 1, api |-> "gl"],
     wasm_gl_shader_source |-> [arity |-> 4, api |-> "gl"],
     wasm_gl_compile_shader |-> [arity |-> 1, api |-> "gl"],
     wasm_gl_get_shaderiv |-> [arity |-> 3, api |-> "gl"],
     wasm_gl_get_shader_info_log |-> [arity |-> 4, api |-> "gl"],
     wasm_gl_create_program |-> [arity |-> 0, api |-> "gl"],
     wasm_gl_attach_shader |-> [arity |-> 2, api |-> "gl"],
     wasm_gl_link_program |-> [arity |-> 1, api |-> "gl"],
     wasm_gl_use_program |-> [arity |-> 1, api |-> "gl"],
     wasm_gl_get_programiv |-> [arity |-> 3, api |-> "gl"],
     wasm_gl_get_program_info_log |-> [arity |-> 4, api |-> "gl"],
     wasm_gl_get_attrib_location |-> [arity |-> 2, api |-> "gl"],
     wasm_gl_get_uniform_location |-> [arity |-> 2, api |-> "gl"],
     wasm_gl_enable_vertex_attrib_array |-> [arity |-> 1, api |-> "gl"],
     wasm_gl_disable_vertex_attrib_array |-> [arity |-> 1, api |-> "gl"],
     wasm_gl_vertex_attrib_pointer |-> [arity |-> 6, api |-> "gl"],
     wasm_gl_gen_buffers |-> [arity |-> 2, api |-> "gl"],
     wasm_gl_bind_buffer |-> [arity |-> 2, api |-> "gl"],
     wasm_gl_buffer_data |-> [arity |-> 4, api |-> "gl"],
     wasm_gl_draw_arrays |-> [arity |-> 3, api |-> "gl"],
     wasm_gl_draw_elements |-> [arity |-> 4, api |-> "gl"],
     wasm_gl_uniform1f |-> [arity |-> 2, api |-> "gl"],
     wasm_gl_uniform1i |-> [arity |-> 2, api |-> "gl"],
     wasm_gl_uniform2f |-> [arity |-> 3, api |-> "gl"],
     wasm_gl_uniform3f |-> [arity |-> 4, api |-> "gl"],
     wasm_gl_uniform4f |-> [arity |-> 5, api |-> "gl"],
     wasm_gl_uniform2fv |-> [arity |-> 3, api |-> "gl"],
     wasm_gl_uniform3fv |-> [arity |-> 3, api |-> "gl"],
     wasm_gl_uniform4fv |-> [arity |-> 3, api |-> "gl"],
     wasm_gl_uniform_matrix4fv |-> [arity |-> 4, api |-> "gl"],
     wasm_gl_gen_textures |-> [arity |-> 2, api |-> "gl"],
     wasm_gl_bind_texture |-> [arity |-> 2, api |-> "gl"],
     wasm_gl_delete_textures |-> [arity |-> 2, api |-> "gl"],
     wasm_gl_tex_image_2d |-> [arity |-> 9, api |-> "gl"],
     wasm_gl_tex_parameteri |-> [arity |-> 3, api |-> "gl"],
     wasm_gl_tex_parameterf |-> [arity |-> 3, api |-> "gl"],
     wasm_gl_active_texture |-> [arity |-> 1, api |-> "gl"],
     wasm_gl_enable |-> [arity |-> 1, api |-> "gl"],
     wasm_gl_disable |-> [arity |-> 1, api |-> "gl"]]

\* #define name(params) import(args), one record per macro of the header.
Macros ==
    {[name |-> "eglGetDisplay", api |-> "egl", params |-> <<"x">>,
      import |-> "wasm_egl_get_display", args |-> <<"x">>],
     [name |-> "eglInitialize", api |-> "egl", params |-> <<"d", "ma", "mi">>,
      import |-> "wasm_egl_initialize", args |-> <<"d", "ma", "mi">>],
     [name |-> "eglChooseConfig", api |-> "egl", params |-> <<"d", "a", "c", "s", "n">>,
      import |-> "wasm_egl_choose_config", args |-> <<"d", "a", "c", "s", "n">>],
     [name |-> "eglCreateWindowSurface", api |-> "egl", params |-> <<"d", "c", "w", "a">>,
      import |-> "wasm_egl_create_window_surface", args |-> <<"d", "c", "w", "a">>],
     [name |-> "eglCreateContext", api |-> "egl", params |-> <<"d", "c", "s", "a">>,
      import |-> "wasm_egl_create_context", args |-> <<"d", "c", "s", "a">>],
     [name |-> "eglMakeCurrent", api |-> "egl", params |-> <<"d", "dr", "r", "c">>,
      import |-> "wasm_egl_make_current", args |-> <<"d", "dr", "r", "c">>],
     [name |-> "eglSwapBuffers", api |-> "egl", params |-> <<"d", "s">>,
      import |-> "wasm_egl_swap_buffers", args |-> <<"d", "s">>],
     [name |-> "glClear", api |-> "gl", params |-> <<"m">>,
      import |-> "wasm_gl_clear", args |-> <<"m">>],
     [name |-> "glClearColor", api |-> "gl", params |-> <<"r", "g", "b", "a">>,
      import |-> "wasm_gl_clear_color", args |-> <<"r", "g", "b", "a">>],
     [name |-> "glViewport", api |-> "gl", params |-> <<"x", "y", "w", "h">>,
      import |-> "wasm_gl_viewport", args |-> <<"x", "y", "w", "h">>],
     [name |-> "glCreateShader", api |-> "gl", params |-> <<"t">>,
      import |-> "wasm_gl_create_shader", args |-> <<"t">>],
     [name |-> "glShaderSource", api |-> "gl", params |-> <<"s", "c", "str", "len">>,
      import |-> "wasm_gl_shader_source", args |-> <<"s", "c", "str", "len">>],
     [name |-> "glCompileShader", api |-> "gl", params |-> <<"s">>,
      import |-> "wasm_gl_compile_shader", args |-> <<"s">>],
     [name |-> "glGetShaderiv", api |-> "gl", params |-> <<"s", "p", "params">>,
      import |-> "wasm_gl_get_shaderiv", args |-> <<"s", "p", "params">>],
     [name |-> "glGetShaderInfoLog", api |-> "gl", params |-> <<"s", "ml", "l", "log">>,
      import |-> "wasm_gl_get_shader_info_log", args |-> <<"s", "ml", "l", "log">>],
     [name |-> "glCreateProgram", api |-> "gl", params |-> <<>>,
      import |-> "wasm_gl_create_program", args |-> <<>>],
     [name |-> "glAttachShader", api |-> "gl", params |-> <<"p", "s">>,
      import |-> "wasm_gl_attach_shader", args |-> <<"p", "s">>],
     [name |-> "glLinkProgram", api |-> "gl", params |-> <<"p">>,
      import |-> "wasm_gl_link_program", args |-> <<"p">>],
     [name |-> "glUseProgram", api |-> "gl", params |-> <<"p">>,
      import |-> "wasm_gl_use_program", args |-> <<"p">>],
     [name |-> "glGetProgramiv", api |-> "gl", params |-> <<"p", "pn", "params">>,
      import |-> "wasm_gl_get_programiv", args |-> <<"p", "pn", "params">>],
     [name |-> "glGetProgramInfoLog", api |-> "gl", params |-> <<"p", "ml", "l", "log">>,
      import |-> "wasm_gl_get_program_info_log", args |-> <<"p", "ml", "l", "log">>],
     [name |-> "glGetAttribLocation", api |-> "gl", params |-> <<"p", "n">>,
      import |-> "wasm_gl_get_attrib_location", args |-> <<"p", "n">>],
     [name |-> "glGetUniformLocation", api |-> "gl", params |-> <<"p", "n">>,
      import |-> "wasm_gl_get_uniform_location", args |-> <<"p", "n">>],
     [name |-> "glEnableVertexAttribArray", api |-> "gl", params |-> <<"i">>,
      import |-> "wasm_gl_enable_vertex_attrib_array", args |-> <<"i">>],
     [name |-> "glDisableVertexAttribArray", api |-> "gl", params |-> <<"i">>,
      import |-> "wasm_gl_disable_vertex_attrib_array", args |-> <<"i">>],
     [name |-> "glVertexAttribPointer", api |-> "gl", params |-> <<"i", "s", "t", "n", "st", "p">>,
      import |-> "wasm_gl_vertex_attrib_pointer", args |-> <<"i", "s", "t", "n", "st", "p">>],
     [name |-> "glGenBuffers", api |-> "gl", params |-> <<"n", "b">>,
      import |-> "wasm_gl_gen_buffers", args |-> <<"n", "b">>],
     [name |-> "glBindBuffer", api |-> "gl", params |-> <<"t", "b">>,
      import |-> "wasm_gl_bind_buffer", args |-> <<"t", "b">>],
     [name |-> "glBufferData", api |-> "gl", params |-> <<"t", "s", "d", "u">>,
      import |-> "wasm_gl_buffer_data", args |-> <<"t", "s", "d", "u">>],
     [name |-> "glDrawArrays", api |-> "gl", params |-> <<"m", "f", "c">>,
      import |-> "wasm_gl_draw_arrays", args |-> <<"m", "f", "c">>],
     [name |-> "glDrawElements", api |-> "gl", params |-> <<"m", "c", "t", "i">>,
      import |-> "wasm_gl_draw_elements", args |-> <<"m", "c", "t", "i">>],
     [name |-> "glUniform1f", api |-> "gl", params |-> <<"l", "v">>,
      import |-> "wasm_gl_uniform1f", args |-> <<"l", "v">>],
     [name |-> "glUniform1i", api |-> "gl", params |-> <<"l", "v">>,
      import |-> "wasm_gl_uniform1i", args |-> <<"l", "v">>],
     [name |-> "glUniform2f", api |-> "gl", params |-> <<"l", "v0", "v1">>,
      import |-> "wasm_gl_uniform2f", args |-> <<"l", "v0", "v1">>],
     [name |-> "glUniform3f", api |-> "gl", params |-> <<"l", "v0", "v1", "v2">>,
      import |-> "wasm_gl_uniform3f", args |-> <<"l", "v0", "v1", "v2">>],
     [name |-> "glUniform4f", api |-> "gl", params |-> <<"l", "v0", "v1", "v2", "v3">>,
      import |-> "wasm_gl_uniform4f", args |-> <<"l", "v0", "v1", "v2", "v3">>],
     [name |-> "glUniform2fv", api |-> "gl", params |-> <<"l", "c", "v">>,
      import |-> "wasm_gl_uniform2fv", args |-> <<"l", "c", "v">>],
     [name |-> "glUniform3fv", api |-> "gl", params |-> <<"l", "c", "v">>,
      import |-> "wasm_gl_uniform3fv", args |-> <<"l", "c", "v">>],
     [name |-> "glUniform4fv", api |-> "gl", params |-> <<"l", "c", "v">>,
      import |-> "wasm_gl_uniform4fv", args |-> <<"l", "c", "v">>],
     [name |-> "glUniformMatrix4fv", api |-> "gl", params |-> <<"l", "c", "t", "v">>,
      import |-> "wasm_gl_uniform_matrix4fv", args |-> <<"l", "c", "t", "v">>],
     [name |-> "glGenTextures", api |-> "gl", params |-> <<"n", "t">>,
      import |-> "wasm_gl_gen_textures", args |-> <<"n", "t">>],
     [name |-> "glBindTexture", api |-> "gl", params |-> <<"tg", "t">>,
      import |-> "wasm_gl_bind_texture", args |-> <<"tg", "t">>],
     [name |-> "glDeleteTextures", api |-> "gl", params |-> <<"n", "t">>,
      import |-> "wasm_gl_delete_textures", args |-> <<"n", "t">>],
     [name |-> "glTexImage2D", api |-> "gl", params |-> <<"tg", "l", "i", "w", "h", "b", "f", "ty", "d">>,
      import |-> "wasm_gl_tex_image_2d", args |-> <<"tg", "l", "i", "w", "h", "b", "f", "ty", "d">>],
     [name |-> "glTexParameteri", api |-> "gl", params |-> <<"tg", "p", "v">>,
      import |-> "wasm_gl_tex_parameteri", args |-> <<"tg", "p", "v">>],
     [name |-> "glTexParameterf", api |-> "gl", params |-> <<"tg", "p", "v">>,
      import |-> "wasm_gl_tex_parameterf", args |-> <<"tg", "p", "v">>],
     [name |-> "glActiveTexture", api |-> "gl", params |-> <<"t">>,
      import |-> "wasm_gl_active_texture", args |-> <<"t">>],
     [name |-> "glEnable", api |-> "gl", params |-> <<"c">>,
      import |-> "wasm_gl_enable", args |-> <<"c">>],
     [name |-> "glDisable", api |-> "gl", params |-> <<"c">>,
      import |-> "wasm_gl_disable", args |-> <<"c">>]}

\* Mutant: the macro passes its arguments in reverse order.
Expand_Reversed(m, actuals) ==
    Call(m.import,
         [i \in 1..Len(m.args) |->
            actuals[CHOOSE k \in 1..Len(m.params) :
                       m.params[k] = m.args[Len(m.args) + 1 - i]]])

\* The preprocessor's expansion of the use name(actuals) of macro m: the call
\* of m.import with each parameter in m.args replaced by its actual argument.
Expand(m, actuals) ==
    Call(m.import,
         [i \in 1..Len(m.args) |->
            actuals[CHOOSE k \in 1..Len(m.params) : m.params[k] = m.args[i]]])

\* A use of one macro of the header with pairwise different arguments.
InitMacro ==
    /\ InitMain /\ demo = "graphics"
    /\ mat = Idle /\ gen = Idle /\ geo = Idle
    /\ \E m \in Macros, k \in 0..MaxOffset :
         mac = [step |-> "use", macro |-> m,
                actuals |-> [i \in 1..Len(m.params) |-> i + k],
                call |-> Call("", <<>>)]

expand_macro ==
    /\ mac.step = "use"
    /\ mac' = [mac EXCEPT !.call = Expand(mac.macro, mac.actuals),
                          !.step = "called"]
    /\ UNCHANGED <<mainVars, mat, gen, geo>>

NextMacro == expand_macro

SpecMacro == InitMacro /\ [][NextMacro]_vars

\* ------------------------------------------------ the texture generators
\* Mutant: the pixel index is not scaled by the four bytes of a pixel.
Offset_Unscaled(x, y, width) == y * width + x

\* int offset = (y * width + x) * 4;
Offset(x, y, width) == (y * width + x) * 4

\* Mutant: the white and the coloured squares are exchanged.
Checker_Inverted(x, y) == 1 - (((x \div 16) + (y \div 16)) % 2)

\* int checker = ((x / 16) + (y / 16)) & 1;
Checker(x, y) == ((x \div 16) + (y \div 16)) % 2

\* The four int values create_checkerboard_texture computes for pixel (x, y).
CheckerboardValues(x, y, width, height) ==
    IF Checker(x, y) = 1
    THEN <<255, 255, 255, 255>>
    ELSE <<(x * 255) \div width, (y * 255) \div height, 128, 255>>

\* The assignment of an int to a GLubyte keeps its low eight bits.
StoreByte(v) == v % 256

\* The values a generator computes for pixel (x, y) and the bytes it stores.
\* The colour bytes of create_cube_texture are float expressions the model
\* does not evaluate; its alpha byte is the constant 255.
PixelValues(fn, x, y, width, height) ==
    IF fn = "create_checkerboard_texture"
    THEN CheckerboardValues(x, y, width, height)
    ELSE <<"float", "float", "float", 255>>
PixelBytes(fn, x, y, width, height) ==
    IF fn = "create_checkerboard_texture"
    THEN [c \in 1..4 |-> StoreByte(CheckerboardValues(x, y, width, height)[c])]
    ELSE <<"float", "float", "float", 255>>

\* The generator each demo calls on its texture buffer.
Generator(d) ==
    IF d = "texture" THEN "create_checkerboard_texture" ELSE "create_cube_texture"

\* The call of the generator on a buffer of size bytes that malloc returned:
\* create_checkerboard_texture(texture_data, tex_width, tex_height) or
\* create_cube_texture(tex_data, tex_size), at the start of its loops.
InitTex ==
    /\ InitMain /\ demo \in {"texture", "cube", "demo"}
    /\ mat = Idle /\ mac = Idle /\ geo = Idle
    /\ gen = [step |-> "run", fn |-> Generator(demo),
              size |-> TexSize(demo) * TexSize(demo) * 4,
              width |-> TexSize(demo), height |-> TexSize(demo),
              x |-> 0, y |-> 0, pixels |-> 0, last |-> {},
              at |-> <<>>, values |-> <<>>, bytes |-> <<>>]

\* One iteration of for (y < height) for (x < width): data[offset + 0],
\* data[offset + 1], data[offset + 2] and data[offset + 3] are written.
write_pixel ==
    /\ gen.step = "run"
    /\ gen.y < gen.height
    /\ gen' = [gen EXCEPT
                 !.last = {Offset(gen.x, gen.y, gen.width) + c : c \in 0..3},
                 !.at = <<gen.x, gen.y>>,
                 !.values = PixelValues(gen.fn, gen.x, gen.y, gen.width,
                                        gen.height),
                 !.bytes = PixelBytes(gen.fn, gen.x, gen.y, gen.width,
                                      gen.height),
                 !.pixels = @ + 1,
                 !.x = IF gen.x + 1 < gen.width THEN gen.x + 1 ELSE 0,
                 !.y = IF gen.x + 1 < gen.width THEN gen.y ELSE gen.y + 1]
    /\ UNCHANGED <<mainVars, mat, mac, geo>>

\* The outer loop ends and the generator returns.
generator_return ==
    /\ gen.step = "run"
    /\ gen.y >= gen.height
    /\ gen' = [gen EXCEPT !.step = "done"]
    /\ UNCHANGED <<mainVars, mat, mac, geo>>

NextTex ==
    \/ write_pixel
    \/ generator_return

SpecTex == InitTex /\ [][NextTex]_vars

\* ------------------------------------------- vertex data and vertex fetch
\* GLushort indices[] of example-texture and of example-cube / example-demo.
quad_indices == <<0, 1, 2, 2, 3, 0>>
cube_indices == <<0, 1, 2, 2, 3, 0,
                  4, 5, 6, 6, 7, 4,
                  8, 9, 10, 10, 11, 8,
                  12, 13, 14, 14, 15, 12,
                  16, 17, 18, 18, 19, 16,
                  20, 21, 22, 22, 23, 20>>
Indices(d) ==
    CASE d = "texture" -> quad_indices
      [] d \in {"cube", "demo"} -> cube_indices
      [] OTHER -> <<>>

\* Floats in one row (one vertex) of GLfloat vertices[].
FloatsPerVertex(d) ==
    CASE d = "shaders" -> 5 [] d = "texture" -> 4 [] OTHER -> 8
\* sizeof(vertices) / (floats per vertex * sizeof(GLfloat))
NumVertices(d) == VertexBytes(d) \div (FloatsPerVertex(d) * 4)

IsPointer(c) == c.f = "glVertexAttribPointer"
IsDraw(c) == c.f \in {"glDrawArrays", "glDrawElements"}
\* The glVertexAttribPointer calls of a demo's setup, as <<index, size,
\* stride, offset>>, and the draw calls of one of its frames.
Pointers(d) == SelectSeq(RenderSetup(d), IsPointer)
Draws(d) == SelectSeq(FrameCalls(d), IsDraw)
\* glDrawArrays(mode, first, count) / glDrawElements(mode, count, ...)
DrawCount(c) == IF c.f = "glDrawArrays" THEN c.a[3] ELSE c.a[2]
\* A vertex number read from outside the index buffer.
NoVertex == -1

\* A frame of a demo that draws, before its first draw call is executed.
InitFetch ==
    /\ InitMain /\ demo \in {"shaders", "texture", "cube", "demo"}
    /\ mat = Idle /\ gen = Idle /\ mac = Idle
    /\ geo = [step |-> "draw", j |-> 1, k |-> 0, vertex |-> NoVertex,
              reads |-> <<>>]

\* Element k of draw call j: its vertex number is first + k (glDrawArrays)
\* or indices[k] (glDrawElements), and each enabled attribute is read from
\* the bytes vertex * stride + offset .. + 4 * size of the vertex buffer.
fetch_vertex ==
    /\ geo.step = "draw"
    /\ geo.j <= Len(Draws(demo))
    /\ LET c == Draws(demo)[geo.j]
           v == IF c.f = "glDrawArrays" THEN c.a[2] + geo.k
                ELSE IF geo.k < Len(Indices(demo))
                     THEN Indices(demo)[geo.k + 1] ELSE NoVertex
           P == Pointers(demo)
           last == geo.k + 1 >= DrawCount(c)
       IN geo' = [geo EXCEPT
                    !.vertex = v,
                    !.reads = [n \in 1..Len(P) |->
                                 [from |-> v * P[n].a[3] + P[n].a[4],
                                  to |-> v * P[n].a[3] + P[n].a[4]
                                         + 4 * P[n].a[2]]],
                    !.k = IF last THEN 0 ELSE geo.k + 1,
                    !.j = IF last THEN geo.j + 1 ELSE geo.j]
    /\ UNCHANGED <<mainVars, mat, gen, mac>>

\* The last draw call of the frame is done.
frame_drawn ==
    /\ geo.step = "draw"
    /\ geo.j > Len(Draws(demo))
    /\ geo' = [geo EXCEPT !.step = "done"]
    /\ UNCHANGED <<mainVars, mat, gen, mac>>

NextFetch ==
    \/ fetch_vertex
    \/ frame_drawn

SpecFetch == InitFetch /\ [][NextFetch]_vars

\* ================================================================ claims
\* The host calls of graphics_initialize, in program order.
InitOrder == <<"wasm_graphics_init", "eglGetDisplay", "eglInitialize",
               "eglChooseConfig", "eglCreateWindowSurface", "eglCreateContext",
               "eglMakeCurrent">>
InitNames == {InitOrder[i] : i \in 1..Len(InitOrder)}
\* Index of the first / last call of f in the log s (0 if there is none).
First(s, f) ==
    IF f \in Names(s) THEN CHOOSE i \in 1..Len(s) :
                              s[i].f = f /\ \A j \in 1..(i - 1) : s[j].f # f
    ELSE 0
Last(s, f) ==
    IF f \in Names(s) THEN CHOOSE i \in 1..Len(s) :
                              s[i].f = f /\ \A j \in (i + 1)..Len(s) : s[j].f # f
    ELSE 0

\* C1: graphics_initialize issues wasm_graphics_init, eglGetDisplay,
\* eglInitialize, eglChooseConfig, eglCreateWindowSurface, eglCreateContext,
\* eglMakeCurrent in this order, each at most once, and after a step has
\* reported failure no later step is ever called.
C1_InitOrderStopsAtFailure ==
    /\ Len(initLog) <= Len(InitOrder)
    /\ \A i \in 1..Len(initLog) :
          initLog[i].f = InitOrder[i]
    /\ \A i \in 1..Len(InitOrder) :
          InitOrder[i] \in failed => Len(initLog) = i

C1_Witness ==
    /\ "eglCreateWindowSurface" \in failed
    /\ pc = "exit"
    /\ Len(initLog) = 5

\* C2: graphics_initialize returns 0 exactly when all seven steps succeeded
\* and -1 otherwise; on 0 the caller's display, surface and context are the
\* handles eglGetDisplay, eglCreateWindowSurface and eglCreateContext
\* returned, the ones that were passed to eglMakeCurrent.
C2_InitResult ==
    initRet # Uninit =>
      /\ initRet \in {0, -1}
      /\ (initRet = 0) <=> (Len(initLog) = 7 /\ failed \cap InitNames = {})
      /\ initRet = 0 =>
            /\ display = loc.display /\ display # EGL_NO_DISPLAY
            /\ surface = loc.surface /\ surface # EGL_NO_SURFACE
            /\ context = loc.context /\ context # EGL_NO_CONTEXT
            /\ initLog[7].a = <<display, surface, surface, context>>

C2_Witness ==
    /\ initRet = 0
    /\ display = 2 /\ surface = 1 /\ context = 2

\* C3: when graphics_initialize returns -1 it has written none of
\* *out_display, *out_surface, *out_context.
C3_FailureWritesNothing ==
    initRet = -1 =>
      /\ display = Uninit /\ surface = Uninit /\ context = Uninit
      /\ assigns["display"] = 0 /\ assigns["surface"] = 0
      /\ assigns["context"] = 0

C3_Witness ==
    /\ initRet = -1
    /\ "eglMakeCurrent" \in failed
    /\ loc.context # Uninit

\* C4: in every demo a call that can fail is tested at once and the demo
\* returns early: after a failure is reported the demo issues no further host
\* call (apart from fetching the info log of the failed shader or program).
C4_NoHostCallAfterFailure ==
    afterFail \subseteq {"glGetShaderInfoLog", "glGetProgramInfoLog"}

\* C5: whenever a fallible step fails, the process exits with a nonzero
\* status and never prints its success message.
C5_FailureIsFatal ==
    failed # {} => (~successMsg /\ exitStatus # 0)

\* C6: on every path on which main returns 1 a line was written to stderr.
C6_FailureExitHasMessage ==
    exitStatus = 1 => stderrLines >= 1

\* C7: no fallible setup call is retried: every graphics_initialize step,
\* glCreateShader and glCompileShader per shader stage, glCreateProgram,
\* glLinkProgram and malloc is issued at most once per run.
C7_NoRetry ==
    LET F == {i \in 1..Len(calls) : calls[i].f \in
                {"glCreateShader", "glCompileShader", "glCreateProgram",
                 "glLinkProgram", "malloc"}}
        PerStage == {"glCreateShader", "glCompileShader"}
    IN
    /\ \A i, j \in 1..Len(initLog) : i # j => initLog[i].f # initLog[j].f
    /\ \A i, j \in F :
          (i # j /\ calls[i].f = calls[j].f) =>
             (calls[i].f \in PerStage /\ calls[i].a # calls[j].a)
    /\ \A f \in PerStage : Cardinality({i \in F : calls[i].f = f}) <= 2
    /\ \A i \in F : calls[i].f = "glCreateShader" =>
          calls[i].a[1] \in {GL_VERTEX_SHADER, GL_FRAGMENT_SHADER}

C7_Witness ==
    /\ pc = "exit"
    /\ "glCompileShader.vs" \in failed
    /\ "glLinkProgram" \in failed
    /\ Count(calls, "glCreateProgram") = 1

\* The calls of the last loop iteration: glClearColor and glClear first, then
\* nDraws draw calls, then eglSwapBuffers and one usleep(16667) last.
FrameShape(nDraws) ==
    LET n == Len(frameLog) IN
    /\ n >= 4
    /\ frameLog[1].f = "glClearColor" /\ frameLog[2].f = "glClear"
    /\ frameLog[n - 1].f = "eglSwapBuffers"
    /\ frameLog[n] = Call("usleep", <<16667>>)
    /\ Cardinality({i \in 1..n : frameLog[i].f \in
                       {"glClear", "eglSwapBuffers", "usleep"}}) = 3
    /\ Cardinality({i \in 3..(n - 2) : frameLog[i].f \in
                       {"glDrawArrays", "glDrawElements"}}) = nDraws
\* A run on which no call has reported failure has reached the render loop
\* or has left it.
FailureFree == failed = {} /\ initRet = 0 /\ pc \in {"loop", "exit"}
\* The setup log holds nShaders compiles, nVertex vertex uploads and nIndex
\* index uploads, the compiles before the uploads.
SetupShape(nShaders, nVertex, nIndex) ==
    /\ Len(initLog) = 7
    /\ Count(calls, "glCompileShader") = nShaders
    /\ Cardinality({i \in 1..Len(calls) : calls[i].f = "glBufferData"
                       /\ calls[i].a[1] = GL_ARRAY_BUFFER}) = nVertex
    /\ Cardinality({i \in 1..Len(calls) : calls[i].f = "glBufferData"
                       /\ calls[i].a[1] = GL_ELEMENT_ARRAY_BUFFER}) = nIndex
    /\ nVertex > 0 => Last(calls, "glCompileShader") < First(calls, "glBufferData")

\* C8 as stated: every demo, on a failure-free run, initializes, compiles
\* exactly two shaders, uploads vertex and index data, and then runs N
\* iterations of clear, draw, swap, sleep with progress lines, then exits.
C8_SameSequenceInEveryDemo ==
    FailureFree =>
      /\ SetupShape(2, 1, 1)
      /\ frame > 0 => (FrameShape(1) \/ FrameShape(num_cubes))
      /\ pc = "exit" => (exitStatus = 0 /\ swaps = FrameCount(demo)
                                         /\ progress > 0)

\* C8 amended: on a failure-free run every demo initializes graphics; every
\* demo but example-graphics then compiles exactly two shaders and uploads
\* static vertex data, and every demo but example-graphics and
\* example-shaders uploads index data; then come N iterations of clear, the
\* draws (none in example-graphics, seven in example-demo, one elsewhere),
\* swap and sleep, with progress lines printed, then exit with status 0.
C8_SequencePerDemo ==
    FailureFree =>
      /\ SetupShape(IF demo = "graphics" THEN 0 ELSE 2,
                    IF demo = "graphics" THEN 0 ELSE 1,
                    IF demo \in {"graphics", "shaders"} THEN 0 ELSE 1)
      /\ frame > 0 => FrameShape(CASE demo = "graphics" -> 0
                                    [] demo = "demo" -> 7
                                    [] OTHER -> 1)
      /\ pc = "exit" => (exitStatus = 0 /\ swaps = FrameCount(demo)
                                         /\ progress > 0)

C8_Witness ==
    /\ FailureFree
    /\ demo = "demo"
    /\ pc = "exit"
    /\ Count(frameLog, "glDrawElements") = 7

\* Calls that release a handle.
ReleaseCalls == {"glDeleteTextures", "glDeleteBuffers", "glDeleteShader",
                 "glDeleteProgram", "eglDestroySurface", "eglDestroyContext",
                 "eglTerminate"}
\* The handle variables each demo declares.
HandlesOf(d) ==
    {"display", "surface", "context"}
    \cup (IF d = "graphics" THEN {} ELSE {"vs", "fs", "program", "vbo"})
    \cup (IF d \in {"texture", "cube", "demo"} THEN {"ibo", "texture0"} ELSE {})
    \cup (IF d = "demo" THEN {"texture1", "texture2", "texture3", "texture4",
                              "texture5", "texture6"} ELSE {})

C10_FrameCounts ==
    LET N == [graphics |-> 1000, shaders |-> 300, texture |-> 300,
              cube |-> 600, demo |-> 900][demo] IN
    /\ swaps = frame
    /\ frame <= N
    /\ (pc = "exit" /\ exitStatus = 0) => swaps = N
    /\ (pc = "exit" /\ failed = {}) => exitStatus = 0
    /\ (failed = {} /\ pc # "exit") => ENABLED Next

C10_Witness ==
    /\ pc = "exit" /\ failed = {} /\ exitStatus = 0
    /\ demo = "graphics" /\ swaps = 1000

\* C11: a progress line is printed in frame f exactly when f mod 60 = 0,
\* starting with frame 0 and at most once per frame: after f iterations
\* ceil(f / 60) lines were printed, and a complete run has printed 17 lines
\* (1000 frames), 5 (300 frames), 10 (600 frames) or 15 (900 frames).
C11_StatusEverySixtyFrames ==
    LET Lines == [graphics |-> 17, shaders |-> 5, texture |-> 5,
                  cube |-> 10, demo |-> 15][demo] IN
    /\ progress = (frame + 59) \div 60
    /\ frame >= 1 => progress >= 1
    /\ (pc = "exit" /\ exitStatus = 0) => progress = Lines

C11_Witness ==
    /\ demo = "cube" /\ pc = "exit" /\ exitStatus = 0
    /\ frame = 600 /\ progress = 10

\* C12: the matrix uploaded to u_mvp transforms a vertex by the model matrix
\* first, then by the view matrix, then by the projection matrix:
\* gl_Position = Projection * (View * (Model * vec4(position, 1.0))).
C12_MvpIsProjectionViewModel ==
    mat.step = "shaded" =>
       mat.gl_Position =
          MatVec(mat.projection, MatVec(mat.view, MatVec(mat.model, mat.position)))

\* C13: every egl* / gl* macro expands to a call of one declared import of
\* the same API, with as many arguments as the import declares, and passes
\* each macro argument once, unmodified and in the same position.
C13_MacrosAreDirect ==
    /\ mac.step \in {"use", "called"} =>
          /\ mac.macro.api \in {"egl", "gl"}
          /\ mac.macro.import \in DOMAIN Imports
          /\ Imports[mac.macro.import].api = mac.macro.api
          /\ Imports[mac.macro.import].arity = Len(mac.macro.params)
    /\ mac.step = "called" =>
          /\ mac.call.f = mac.macro.import
          /\ mac.call.a = mac.actuals

C13_Witness ==
    /\ mac.step = "called"
    /\ mac.macro.name = "glTexImage2D"
    /\ mac.call = Call("wasm_gl_tex_image_2d", <<2, 3, 4, 5, 6, 7, 8, 9, 10>>)

\* C14: the buffer of a 256x256 RGBA texture has 262,144 bytes and that of a
\* 128x128 texture 65,536; a generator called on it writes, in its n-th
\* iteration, exactly the four offsets 4(n-1) .. 4(n-1)+3, all inside the
\* buffer, so that on return every offset of the buffer was written exactly
\* once and none outside it.
C14_GeneratorFillsBuffer ==
    gen.step # "idle" =>
       /\ gen.size = (IF gen.width = 256 THEN 262144 ELSE 65536)
       /\ gen.width \in {128, 256}
       /\ gen.last \subseteq 0..(gen.size - 1)
       /\ gen.pixels > 0 =>
             gen.last = {4 * (gen.pixels - 1) + c : c \in 0..3}
       /\ gen.step = "done" => 4 * gen.pixels = gen.size

C14_Witness ==
    /\ gen.step = "done"
    /\ gen.fn = "create_checkerboard_texture"
    /\ gen.pixels = 65536
    /\ 262143 \in gen.last

\* The calls that draw.
DrawCalls == {"glDrawArrays", "glDrawElements"}

\* C15: GL_TRIANGLES is 0x0004 and differs from GL_POINTS, GL_LINES,
\* GL_LINE_STRIP, GL_TRIANGLE_STRIP and GL_TRIANGLE_FAN; every draw call a
\* demo issues passes mode 0x0004, and draw calls are issued in the loop only.
C15_DrawsUseTriangles ==
    /\ GL_TRIANGLES = 4
    /\ GL_TRIANGLES \notin {GL_POINTS, GL_LINES, GL_LINE_STRIP,
                             GL_TRIANGLE_STRIP, GL_TRIANGLE_FAN}
    /\ \A i \in 1..Len(frameLog) :
          frameLog[i].f \in DrawCalls => frameLog[i].a[1] = 4
    /\ \A i \in 1..Len(calls) : calls[i].f \notin DrawCalls

C15_Witness ==
    /\ demo = "shaders" /\ frame = 2
    /\ frameLog[3] = Call("glDrawArrays", <<4, 0, 3>>)

C17_CubeDraws ==
    (demo = "demo" /\ frame > 0) =>
       /\ Len(frameLog) = 2 + 5 * 7 + 2
       /\ \A i \in 0..6 :
             LET b == 2 + 5 * i IN
             /\ frameLog[b + 1] = Call("glUniformMatrix4fv", <<U_mvp, i>>)
             /\ frameLog[b + 2] = Call("glUniform3f", <<U_tint_color, i>>)
             /\ frameLog[b + 3] = Call("glActiveTexture", <<GL_TEXTURE0 + 0>>)
             /\ frameLog[b + 4] = Call("glBindTexture",
                                       <<GL_TEXTURE_2D, texture[i]>>)
             /\ frameLog[b + 5].f = "glDrawElements"
             /\ texture[i] # Uninit /\ assigns[TexVar(i)] = 1
       /\ \A i, j \in 0..6 : i # j => texture[i] # texture[j]
       /\ calls[Len(calls)] = Call("glUniform1i", <<U_texture, 0>>)

C17_Witness ==
    /\ demo = "demo" /\ frame = 900
    /\ frameLog[36] = Call("glBindTexture", <<GL_TEXTURE_2D, texture[6]>>)
    /\ texture[6] = texture[0] + 6

\* C18: when malloc returns NULL the demo prints an error and returns 1; no
\* generator ever writes through a NULL pointer and NULL is never passed to
\* glTexImage2D.
C18_AllocFailureDetected ==
    /\ ~nullWrite
    /\ "malloc" \in failed =>
          /\ pc \in {"demo_cube", "exit"}
          /\ pc = "exit" => (exitStatus = 1 /\ stderrLines >= 1)
          /\ \A i \in 1..Len(calls) : calls[i] # TexImage(demo, NULL)

\* C19: every index is smaller than the number of uploaded vertices (24 for
\* the cubes, 4 for the quad), the count of glDrawElements is the number of
\* uploaded indices (36, 6), the two triangles of face f use only the
\* vertices 4f .. 4f+3, glDrawArrays draws exactly the 3 uploaded vertices
\* of example-shaders, and so every vertex a draw call fetches exists.
C19_IndicesMatchVertices ==
    geo.step # "idle" =>
       LET I == Indices(demo)
           V == [shaders |-> 3, texture |-> 4, cube |-> 24, demo |-> 24][demo]
       IN
       /\ NumVertices(demo) = V
       /\ \A n \in 1..Len(I) : I[n] \in 0..(V - 1) /\ I[n] \div 4 = (n - 1) \div 6
       /\ HasIndices(demo) =>
             /\ Len(I) = (IF demo = "texture" THEN 6 ELSE 36)
             /\ IndexBytes(demo) = 2 * Len(I)
       /\ \A j \in 1..Len(Draws(demo)) :
             LET c == Draws(demo)[j] IN
             IF HasIndices(demo)
             THEN c.f = "glDrawElements" /\ DrawCount(c) = Len(I)
             ELSE c.f = "glDrawArrays" /\ c.a[2] = 0 /\ DrawCount(c) = V
       /\ geo.reads # <<>> => geo.vertex \in 0..(V - 1)

C19_Witness ==
    /\ demo = "cube" /\ geo.step = "done"
    /\ geo.vertex = 20 /\ geo.j = 2

\* C20: all attributes of a demo use one stride, 4 bytes times the floats
\* per vertex (32, 20 for the triangle, 16 for the quad); their byte ranges
\* [offset, offset + 4 * size) are pairwise disjoint and cover the stride
\* exactly; the uploaded size is a multiple of the stride, and every
\* attribute a draw call reads lies inside the uploaded buffer.
C20_AttributeLayout ==
    geo.step # "idle" =>
       LET P == Pointers(demo)
           stride == [shaders |-> 20, texture |-> 16, cube |-> 32,
                      demo |-> 32][demo]
           Range(n) == P[n].a[4]..(P[n].a[4] + 4 * P[n].a[2] - 1)
       IN
       /\ Len(P) = (IF demo \in {"cube", "demo"} THEN 3 ELSE 2)
       /\ \A n \in 1..Len(P) : P[n].a[3] = stride /\ P[n].a[2] > 0
       /\ stride = 4 * FloatsPerVertex(demo)
       /\ \A n, k \in 1..Len(P) : n # k => Range(n) \cap Range(k) = {}
       /\ UNION {Range(n) : n \in 1..Len(P)} = 0..(stride - 1)
       /\ VertexBytes(demo) % stride = 0
       /\ \A n \in 1..Len(geo.reads) :
             /\ 0 <= geo.reads[n].from
             /\ geo.reads[n].to <= VertexBytes(demo)

C20_Witness ==
    /\ demo = "shaders" /\ geo.step = "done"
    /\ geo.reads = <<[from |-> 40, to |-> 48], [from |-> 48, to |-> 60]>>

\* C21: create_checkerboard_texture stores, for every pixel (x, y), alpha
\* 255 and the colour white exactly when (x div 16) + (y div 16) is odd,
\* otherwise (x * 255 div width, y * 255 div height, 128); every value it
\* computes is in 0..255, so the stored byte is the value (the gradients are
\* at most 254), and pixel (0, 0) is a coloured square.
C21_CheckerboardPixels ==
    (gen.step # "idle" /\ gen.fn = "create_checkerboard_texture"
       /\ gen.pixels > 0) =>
       LET x == gen.at[1]
           y == gen.at[2]
           white == ((x \div 16) + (y \div 16)) % 2 = 1
       IN
       /\ x \in 0..(gen.width - 1) /\ y \in 0..(gen.height - 1)
       /\ gen.bytes[4] = 255
       /\ white => gen.bytes = <<255, 255, 255, 255>>
       /\ ~white =>
             /\ gen.bytes = <<(x * 255) \div gen.width,
                              (y * 255) \div gen.height, 128, 255>>
             /\ gen.bytes[1] <= 254 /\ gen.bytes[2] <= 254
       /\ (gen.bytes[1] = 255 /\ gen.bytes[2] = 255 /\ gen.bytes[3] = 255)
             => white
       /\ \A c \in 1..4 : gen.values[c] \in 0..255 /\ gen.bytes[c] = gen.values[c]
       /\ (x = 0 /\ y = 0) => gen.bytes = <<0, 0, 128, 255>>

C21_Witness ==
    /\ gen.fn = "create_checkerboard_texture"
    /\ gen.at = <<255, 255>>
    /\ gen.bytes = <<254, 254, 128, 255>>

\* C22: in example-graphics the hue passed to hsv_to_rgb in frame f is
\* 0.5 * (f mod 720) degrees, so 0 <= hue < 360: it wraps to 0 in the frame
\* in which it would reach 360; the sector (int)(hue / 60) is in 0..5, the
\* switch selects a case, and r, g and b are assigned before glClearColor
\* receives them, in each of the 1000 frames.
C22_HueInRange ==
    demo = "graphics" =>
       /\ frame <= 1000
       /\ hue2 = frame % 720
       /\ hue2 \in 0..719
       /\ hsv_to_rgb(hue2).i \in 0..5
       /\ frame > 0 =>
             LET c == frameLog[1].a[1] IN
             /\ c.h2 = (frame - 1) % 720
             /\ c.h2 >= 0 /\ c.h2 < 2 * 360
             /\ c.i = c.h2 \div (2 * 60) /\ c.i \in 0..5
             /\ c.assigned = {"r", "g", "b"}

C22_Witness ==
    /\ demo = "graphics" /\ frame = 721
    /\ hue2 = 1
    /\ frameLog[1].a[1].h2 = 0 /\ frameLog[1].a[1].assigned = {"r", "g", "b"}

====
